---- MODULE Spec2Model ----
(***************************************************************************)
(* A model of the two Streamlit front-ends of the repository:              *)
(*   src/t1.py  the YouTube transcript / download page                     *)
(*   src/t2.py  the "Dealer Directory" workbook viewer                     *)
(*                                                                         *)
(* A Python str is a sequence of one-character strings, so that matching,  *)
(* searching, stripping and lower-casing are computed, not assumed.        *)
(***************************************************************************)
EXTENDS Integers, Sequences, FiniteSets, TLC

VARIABLES
    \* ---- src/t1.py: one run of the script ----
    vphase,      \* "idle" | "done": whether the script has run for an input
    video_url,   \* the text of st.text_input
    video_id,    \* what extract_video_id returned (NoneId for None)
    via,         \* which branch of extract_video_id returned
    shown,       \* the st.write / st.error / st.subheader outputs, in order
    calls,       \* the external collaborator calls made, in order
    \* ---- src/t2.py: filter_df as a function ----
    fphase,      \* "start" | "filtered" | "refiltered"
    fdf,         \* the table handed to filter_df last
    ffilters,    \* the filters mapping handed to filter_df last
    fres,        \* what filter_df did: [raised, df]
    \* ---- src/t2.py: the script after an upload ----
    dfs,            \* load_excel: the sheets in order, each [name, df]
    aphase,         \* "loaded" | "sheet" | "all": what the script has shown
    selected_sheet, \* the sheet chosen in the sidebar
    widgets,        \* the sidebar settings of the run
    filtered_df,    \* df[mask] of the single-sheet view
    card_func,      \* the card function the view chose
    pdf,            \* what download_pdf_reportlab did at line 781
    cards,          \* render_cards: the pairs written into each card
    dash            \* what all_dashboard showed and exported

vvars == <<vphase, video_url, video_id, via, shown, calls>>
fvars == <<fphase, fdf, ffilters, fres>>
avars == <<dfs, aphase, selected_sheet, widgets, filtered_df, card_func, pdf, cards, dash>>
vars == <<vvars, fvars, avars>>

(***************************************************************************)
(* Strings                                                                 *)
(***************************************************************************)
UpperCase == <<"A","B","C","D","E","F","G","H","I","J","K","L","M",
               "N","O","P","Q","R","S","T","U","V","W","X","Y","Z">>
LowerCase == <<"a","b","c","d","e","f","g","h","i","j","k","l","m",
               "n","o","p","q","r","s","t","u","v","w","x","y","z">>
Digits == {"0","1","2","3","4","5","6","7","8","9"}
Range(s) == {s[i] : i \in DOMAIN s}

\* str.lower() of one character
LowerChar(c) ==
    IF c \in Range(UpperCase)
    THEN LowerCase[CHOOSE i \in DOMAIN UpperCase : UpperCase[i] = c]
    ELSE c
\* str.lower()
Lower(s) == [i \in DOMAIN s |-> LowerChar(s[i])]

\* s[i:i+len(t)] == t, positions from 1
OccursAt(t, s, i) ==
    /\ i >= 1
    /\ i + Len(t) - 1 <= Len(s)
    /\ \A k \in 1..Len(t) : s[i + k - 1] = t[k]
\* t in s
Contains(s, t) == \E i \in 1..(Len(s) + 1) : OccursAt(t, s, i)

(***************************************************************************)
(* src/t1.py: extract_video_id                                             *)
(***************************************************************************)
\* the character class [a-zA-Z0-9_-]
IdChars == Range(UpperCase) \cup Range(LowerCase) \cup Digits \cup {"_", "-"}
\* the repetition {11}
IdLen == 11
NoneId == <<"None">>

\* the three literals of the patterns (\. and \? are the plain characters)
WatchLit == <<"y","o","u","t","u","b","e",".","c","o","m","/",
              "w","a","t","c","h","?","v","=">>
ShortLit == <<"y","o","u","t","u",".","b","e","/">>
EmbedLit == <<"y","o","u","t","u","b","e",".","c","o","m","/",
              "e","m","b","e","d","/">>
patterns == <<WatchLit, ShortLit, EmbedLit>>
PatternName == <<"watch", "short", "embed">>

\* [a-zA-Z0-9_-]{11} at position i
IdAt(url, i) ==
    /\ i >= 1
    /\ i + IdLen - 1 <= Len(url)
    /\ \A k \in i..(i + IdLen - 1) : url[k] \in IdChars

\* re.match(r'^[a-zA-Z0-9_-]{11}$', url). Python's $ matches at the end of the
\* string and also just before a newline that ends the string.
BareIdMatch(url) ==
    /\ IdAt(url, 1)
    /\ \/ Len(url) = IdLen
       \/ Len(url) = IdLen + 1 /\ url[IdLen + 1] = "\n"

\* re.search(pattern, url): the positions where literal + ([..]{11}) matches
MatchPositions(lit, url) ==
    {i \in 1..Len(url) : OccursAt(lit, url, i) /\ IdAt(url, i + Len(lit))}
Min(S) == CHOOSE x \in S : \A y \in S : x <= y
\* match.group(1) of the leftmost match
Group1(lit, url) ==
    LET i == Min(MatchPositions(lit, url))
    IN  SubSeq(url, i + Len(lit), i + Len(lit) + IdLen - 1)

\* extract_video_id without its first test: a bare ID is given to the patterns
extract_video_id_patterns_only(url) ==
    LET hits == {p \in DOMAIN patterns : MatchPositions(patterns[p], url) # {}}
    IN  IF hits # {}
        THEN [id |-> Group1(patterns[Min(hits)], url), via |-> PatternName[Min(hits)]]
        ELSE [id |-> NoneId, via |-> "none"]

\* extract_video_id(url): [id, via]; via names the branch that returned
extract_video_id(url) ==
    IF BareIdMatch(url)
    THEN [id |-> url, via |-> "bare"]
    ELSE LET hits == {p \in DOMAIN patterns : MatchPositions(patterns[p], url) # {}}
         IN  IF hits # {}
             THEN [id |-> Group1(patterns[Min(hits)], url),
                   via |-> PatternName[Min(hits)]]
             ELSE [id |-> NoneId, via |-> "none"]

(***************************************************************************)
(* The inputs of the page: what a user can type or paste                   *)
(***************************************************************************)
Id1 == <<"d","Q","w","4","w","9","W","g","X","c","Q">>
Id2 == <<"a","_","b","-","c","_","d","-","0","1","Z">>
ShortId == <<"d","Q","w","4","w","9","W","g","X","c">>
BadId == <<"d","Q","w","4","w","9","W","g","X","c","!">>
NearWatchLit == <<"y","o","u","t","u","b","e","_","c","o","m","/",
                  "w","a","t","c","h","?","v","=">>
Https == <<"h","t","t","p","s",":","/","/">>
NotAUrl == <<"n","o","t"," ","a"," ","u","r","l">>

Prefixes == {<<>>, Https, <<" ">>}
Heads == {<<>>, WatchLit, ShortLit, EmbedLit, NearWatchLit}
Ids == {Id1, Id2, ShortId, BadId}
Suffixes == {<<>>, <<"&","t","=","1">>, <<"\n">>, <<"Z">>, <<" ">>}
Urls ==
    {p \o h \o i \o s : p \in Prefixes, h \in Heads, i \in Ids, s \in Suffixes}
    \cup {h1 \o Id1 \o <<" ">> \o h2 \o Id2 :
              h1 \in {WatchLit, ShortLit, EmbedLit}, h2 \in {WatchLit, ShortLit, EmbedLit}}
    \cup {<<>>, NotAUrl}

(***************************************************************************)
(* src/t1.py: the script, lines 140-191                                    *)
(***************************************************************************)
\* what get_video_streams did: raised (st.error, (None, [])), or returned
\* (title, streams) with both, with an empty stream list, or with an empty title
StreamOutcomes == {"raised", "ok", "nostreams", "notitle"}
\* what get_transcript returned: the text, or one of its four messages
TranscriptOutcomes == {"text", "disabled", "notfound", "unavailable", "error"}
\* the "Download Video" button and what download_video did when clicked
DownloadOutcomes == {"noclick", "ok", "nostream", "error"}
\* transcript.startswith(("Transcripts are disabled", "No transcript found", ...))
IsErrorText(t) == t # "text"

\* get_video_streams: its st.error when it raised
StreamsShown(so) == IF so = "raised" THEN <<"error:streams">> ELSE <<>>
\* download_video: the download button, or its st.error
DownloadShown(o) ==
    CASE o = "ok" -> <<"button:video">>
      [] o = "nostream" -> <<"error:stream not found">>
      [] OTHER -> <<"error:download">>

\* lines 144-189: the branch taken when extract_video_id returned an ID
RunWithId(so, tr, dl) ==
    LET title == so \in {"ok", "nostreams"}
        streams == so \in {"ok", "notitle"}
    IN
    /\ calls' = <<"get_video_streams", "get_transcript">>
                \o (IF streams /\ dl # "noclick" THEN <<"download_video">> ELSE <<>>)
    /\ shown' = <<"write:id", "image:thumbnail">>
                \o StreamsShown(so)
                \o (IF title THEN <<"subheader:title">> ELSE <<"error:no title">>)
                \o <<"write:transcript">>
                \o (IF ~IsErrorText(tr) THEN <<"button:pdf">> ELSE <<>>)
                \o (IF streams /\ dl # "noclick" THEN DownloadShown(dl) ELSE <<>>)

\* One run of the script (lines 140-191) for the text-box value url
RunScript(url) ==
    LET r == extract_video_id(url)
    IN
    /\ vphase = "idle"
    /\ vphase' = "done"
    /\ video_url' = url
    /\ IF url = <<>>
       THEN \* line 142: an empty box runs nothing
            /\ video_id' = NoneId
            /\ via' = "norun"
            /\ shown' = <<>>
            /\ calls' = <<>>
       ELSE /\ video_id' = r.id
            /\ via' = r.via
            /\ IF r.id # NoneId
               THEN \E so \in StreamOutcomes, tr \in TranscriptOutcomes,
                       dl \in DownloadOutcomes : RunWithId(so, tr, dl)
               ELSE /\ calls' = <<>>
                    /\ shown' = <<"error:invalid">>
    /\ UNCHANGED <<fvars, avars>>

\* Streamlit runs the script anew for the next interaction
Rerun ==
    /\ vphase = "done"
    /\ vphase' = "idle"
    /\ video_url' = <<>>
    /\ video_id' = NoneId
    /\ via' = "norun"
    /\ shown' = <<>>
    /\ calls' = <<>>
    /\ UNCHANGED <<fvars, avars>>

VideoIdle ==
    /\ vphase = "idle"
    /\ video_url = <<>>
    /\ video_id = NoneId
    /\ via = "norun"
    /\ shown = <<>>
    /\ calls = <<>>

FilterIdle ==
    /\ fphase = "start"
    /\ fdf = <<>>
    /\ ffilters = <<>>
    /\ fres = <<>>

(***************************************************************************)
(* Claims about src/t1.py                                                  *)
(***************************************************************************)
\* exactly 11 characters, each from [a-zA-Z0-9_-]
IsBareId(u) == Len(u) = IdLen /\ \A k \in 1..Len(u) : u[k] \in IdChars

\* C1: an input of exactly 11 characters from [a-zA-Z0-9_-] is returned
\* unchanged, by the first test and not by a URL pattern.
C1_BareIdUnchanged ==
    (vphase = "done" /\ IsBareId(video_url))
        => (video_id = video_url /\ via = "bare")

C1_Witness ==
    vphase = "done" /\ video_url = Id2 /\ video_id = Id2 /\ via = "bare"

\* the input holds the k-th URL shape followed by 11 ID characters
HasShape(k, u) ==
    \E i \in 1..Len(u) :
        /\ OccursAt(patterns[k], u, i)
        /\ i + Len(patterns[k]) + IdLen - 1 <= Len(u)
        /\ \A j \in 1..IdLen : u[i + Len(patterns[k]) + j - 1] \in IdChars
\* the 11 characters after the leftmost occurrence of the k-th shape
ShapeId(k, u) ==
    LET i == CHOOSE i \in 1..Len(u) :
                 /\ OccursAt(patterns[k], u, i)
                 /\ \A h \in 1..(i - 1) : ~OccursAt(patterns[k], u, h)
    IN  [j \in 1..IdLen |-> u[i + Len(patterns[k]) + j - 1]]

\* C2: an input that holds one of the three URL shapes yields the ID of the
\* first shape in priority order; a submitted input that is neither a bare ID
\* nor holds a shape is reported invalid: no ID, the error shown, no fetch.
C2_ShapesOrInvalid ==
    vphase = "done" /\ video_url # <<>> =>
        /\ \A k \in DOMAIN patterns :
               (HasShape(k, video_url) /\ \A h \in 1..(k - 1) : ~HasShape(h, video_url))
                   => video_id = ShapeId(k, video_url)
        /\ (~IsBareId(video_url) /\ \A k \in DOMAIN patterns : ~HasShape(k, video_url))
               => /\ video_id = NoneId
                  /\ shown = <<"error:invalid">>
                  /\ calls = <<>>

(***************************************************************************)
(* src/t2.py: tables                                                       *)
(*                                                                         *)
(* A DataFrame is [columns, rows]: the column names in order, and the rows *)
(* in order, each with its index label and its cells. xls.parse gives the  *)
(* labels 0..n-1; df[mask] keeps the labels of the rows it keeps.          *)
(* A cell is a str or NaN (an empty spreadsheet cell).                     *)
(***************************************************************************)
NaN == [isnull |-> TRUE, str |-> <<>>]
Cell(s) == [isnull |-> FALSE, str |-> s]
\* Series.astype(str): NaN becomes the text "nan"
AsStr(c) == IF c.isnull THEN <<"n","a","n">> ELSE c.str

\* col in df.columns
HasCol(df, col) == col \in Range(df.columns)
Labels(df) == {df.rows[i].label : i \in DOMAIN df.rows}
\* a frame as xls.parse returns it: labels 0..n-1
Frame(cols, cellrows) ==
    [columns |-> cols,
     rows |-> [i \in DOMAIN cellrows |-> [label |-> i - 1, cells |-> cellrows[i]]]]
\* the rows' cells, without the index
Content(df) == [i \in DOMAIN df.rows |-> df.rows[i].cells]
\* all sequences over S of length at most n
SeqsUpTo(S, n) == UNION {[1..k -> S] : k \in 0..n}

\* A value of the filters mapping: a list of chosen values (multiselect) or a
\* search text (text_input)
ListSel(vs) == [kind |-> "list", vals |-> vs, text |-> <<>>]
TextSel(t) == [kind |-> "text", vals |-> {}, text |-> t]
\* "and selected": an empty list and an empty string are falsy
Truthy(sel) == IF sel.kind = "list" THEN sel.vals # {} ELSE sel.text # <<>>

\* re.search(pat, s, re.IGNORECASE) for a pattern of plain characters and ".":
\* str.contains takes its argument as a regular expression (regex=True)
RegexSearch(pat, s) ==
    \E i \in 1..(Len(s) + 1) :
        /\ i + Len(pat) - 1 <= Len(s)
        /\ \A k \in 1..Len(pat) :
               \/ pat[k] = "." /\ s[i + k - 1] # "\n"
               \/ pat[k] # "." /\ LowerChar(pat[k]) = LowerChar(s[i + k - 1])

\* df[col].astype(str).isin(selected) / .str.contains(selected, case=False, na=False)
\* for one cell
CellPasses(c, sel) ==
    IF sel.kind = "list" THEN AsStr(c) \in sel.vals ELSE RegexSearch(sel.text, AsStr(c))

\* filter_df with "col in df.columns" dropped: df[col] raises KeyError
filter_df_no_column_test(df, filters) ==
    LET n == Len(df.rows)
        active == {c \in DOMAIN filters : Truthy(filters[c])}
        mask == [l \in 0..(n - 1) |->
                    \A c \in active :
                        \E i \in DOMAIN df.rows :
                            df.rows[i].label = l /\ CellPasses(df.rows[i].cells[c], filters[c])]
    IN  IF (\E c \in active : ~HasCol(df, c)) \/ Labels(df) # 0..(n - 1)
        THEN [raised |-> TRUE, df |-> [columns |-> df.columns, rows |-> <<>>]]
        ELSE [raised |-> FALSE,
              df |-> [columns |-> df.columns,
                      rows |-> SelectSeq(df.rows, LAMBDA r : mask[r.label])]]

\* filter_df(df, filters): [raised, df].
\* mask is a Series over the labels 0..n-1. "mask &= s" aligns s, whose labels
\* are df's, to mask's labels, and a label s lacks gives False. df[mask] takes
\* mask by df's labels and raises IndexingError when mask lacks one of them.
filter_df(df, filters) ==
    LET n == Len(df.rows)
        active == {c \in DOMAIN filters : HasCol(df, c) /\ Truthy(filters[c])}
        mask == [l \in 0..(n - 1) |->
                    \A c \in active :
                        \E i \in DOMAIN df.rows :
                            df.rows[i].label = l /\ CellPasses(df.rows[i].cells[c], filters[c])]
    IN  IF Labels(df) # 0..(n - 1)
        THEN [raised |-> TRUE, df |-> [columns |-> df.columns, rows |-> <<>>]]
        ELSE [raised |-> FALSE,
              df |-> [columns |-> df.columns,
                      rows |-> SelectSeq(df.rows, LAMBDA r : mask[r.label])]]

(***************************************************************************)
(* filter_df on small tables                                               *)
(***************************************************************************)
MaxRows == 2

ColName == <<"N","a","m","e">>
ColSector == <<"S","e","c","t","o","r">>
ColCity == <<"C","i","t","y">>
sAbc == <<"a","b","c">>
sADotC == <<"a",".","c">>
sTech == <<"T","e","c","h">>
sTechLower == <<"t","e","c","h">>
sTECH == <<"T","E","C","H">>
sX == <<"x">>

FCols == <<ColName, ColSector>>
FRows ==
    {[c \in Range(FCols) |-> IF c = ColName THEN nm ELSE sc] :
        nm \in {Cell(sAbc), Cell(sADotC)},
        sc \in {Cell(sTech), Cell(sTechLower), NaN}}
FTables == {Frame(FCols, rs) : rs \in SeqsUpTo(FRows, MaxRows)}

\* the filters mappings tried: per column, no entry or one of a few values;
\* City is not a column of the tables
FKeys == {ColName, ColSector, ColCity}
FOptions(c) ==
    CASE c = ColName -> {TextSel(sADotC), TextSel(<<>>)}
      [] c = ColSector -> {ListSel({sTech}), ListSel({}), TextSel(sTECH)}
      [] OTHER -> {ListSel({sX})}
FFilters ==
    UNION {{f \in [D -> UNION {FOptions(c) : c \in FKeys}] :
               \A c \in D : f[c] \in FOptions(c)} : D \in SUBSET FKeys}

\* filter_df(T, P) on a loaded table
ApplyFilter ==
    \E P \in FFilters :
        /\ fphase = "start"
        /\ fphase' = "filtered"
        /\ ffilters' = P
        /\ fres' = filter_df(fdf, P)
        /\ UNCHANGED <<fdf, vvars, avars>>

\* filter_df(filter_df(T, P), P): the same mapping on the table just returned
Reapply ==
    /\ fphase = "filtered"
    /\ ~fres.raised
    /\ fphase' = "reapplied"
    /\ fdf' = fres.df
    /\ fres' = filter_df(fres.df, ffilters)
    /\ UNCHANGED <<ffilters, vvars, avars>>

\* filter_df(filter_df(T, P), P2): another mapping on the table just returned
Refilter ==
    \E P2 \in FFilters :
        /\ fphase = "filtered"
        /\ ~fres.raised
        /\ fphase' = "refiltered"
        /\ fdf' = fres.df
        /\ ffilters' = P2
        /\ fres' = filter_df(fres.df, P2)
        /\ UNCHANGED <<vvars, avars>>

(***************************************************************************)
(* Claims about filter_df                                                  *)
(***************************************************************************)
Filtered == fphase \in {"filtered", "reapplied", "refiltered"}

\* C3: filtering is idempotent: filter_df with P on the table filter_df(T, P)
\* returned completes and returns the same rows in the same order.
C3_Idempotent ==
    fphase = "reapplied" => (~fres.raised /\ Content(fres.df) = Content(fdf))

\* no entry of the mapping is active: each is an empty list or an empty text
NoSelection(P) == \A c \in DOMAIN P : ~Truthy(P[c])

\* C4: filtering with no active selection returns every row of the table, in
\* the original order and with unchanged content.
C4_NoSelectionKeepsAll ==
    (Filtered /\ NoSelection(ffilters))
        => (~fres.raised /\ Content(fres.df) = Content(fdf))

\* the mapping without its entry for column c
Without(P, c) == [d \in DOMAIN P \ {c} |-> P[d]]

\* C5: an entry whose column is not a column of the table is ignored: the
\* outcome of filtering is the outcome of filtering with that entry removed.
C5_AbsentColumnIgnored ==
    Filtered =>
        \A c \in DOMAIN ffilters :
            ~HasCol(fdf, c) => fres = filter_df(fdf, Without(ffilters, c))

\* an entry for the missing column City with a chosen value, and a non-empty
\* table that came back whole
C5_Witness ==
    /\ fphase = "filtered"
    /\ ColCity \in DOMAIN ffilters
    /\ Truthy(ffilters[ColCity])
    /\ ~HasCol(fdf, ColCity)
    /\ ~fres.raised
    /\ Len(fdf.rows) = MaxRows
    /\ Content(fres.df) = Content(fdf)

\* the row satisfies the entry as the specification words it: membership of
\* the stringified cell in the chosen set, or plain case-insensitive
\* containment of the search text in the stringified cell
EntrySatisfied(cells, c, sel) ==
    IF sel.kind = "list"
    THEN AsStr(cells[c]) \in sel.vals
    ELSE Contains(Lower(AsStr(cells[c])), Lower(sel.text))
RowSatisfies(df, cells, P) ==
    \A c \in DOMAIN P :
        (HasCol(df, c) /\ Truthy(P[c])) => EntrySatisfied(cells, c, P[c])

\* C6: the filtered table is exactly the rows that satisfy every active entry,
\* in the order they have in the table.
C6_ExactlyMatchingRows ==
    Filtered =>
        /\ ~fres.raised
        /\ Content(fres.df)
               = SelectSeq(Content(fdf), LAMBDA cells : RowSatisfies(fdf, cells, ffilters))

(***************************************************************************)
(* src/t2.py: val, combine_vals, location_presence, card_html              *)
(***************************************************************************)
IsSpace(c) == c \in {" ", "\t", "\n"}
RECURSIVE LStrip(_)
LStrip(s) == IF s # <<>> /\ IsSpace(Head(s)) THEN LStrip(Tail(s)) ELSE s
RECURSIVE RStrip(_)
RStrip(s) == IF s # <<>> /\ IsSpace(s[Len(s)]) THEN RStrip(SubSeq(s, 1, Len(s) - 1)) ELSE s
\* str.strip()
Strip(s) == RStrip(LStrip(s))

\* sep.join(parts)
RECURSIVE Join(_, _)
Join(parts, sep) ==
    IF parts = <<>> THEN <<>>
    ELSE IF Len(parts) = 1 THEN parts[1]
    ELSE parts[1] \o sep \o Join(Tail(parts), sep)

CommaSpace == <<",", " ">>
Space == <<" ">>
SpaceDashSpace == <<" ", "-", " ">>

\* val(row, col): a row is the cells of one table row, a function of its columns
val(row, col) ==
    IF col \in DOMAIN row /\ ~row[col].isnull THEN Strip(row[col].str) ELSE <<>>

\* combine_vals(row, cols, sep)
combine_vals(row, cols, sep) ==
    Join(SelectSeq([i \in DOMAIN cols |-> val(row, cols[i])], LAMBDA v : v # <<>>), sep)

\* the locations list of listed_companies_card
locations == <<<<"A","g","r","a">>, <<"M","u","m","b","a","i">>, <<"N","C","R">>, <<"C","h","e","n","n","a","i">>, <<"V","a","d","o","d","a","r","a">>,
               <<"B","a","n","g","a","l","o","r","e">>, <<"P","u","n","e">>, <<"K","o","l","k","a","t","a">>, <<"H","y","d","e","r","a","b","a","d">>, <<"A","h","m","e","d","a","b","a","d">>>>
suffixes == <<<<"C","O">>, <<"B","r","a","n","c","h">>, <<"P","l","a","n","t">>>>
sIn == <<" ", "i", "n", " ">>

\* location_presence(row, locations): "<suffix> in <loc>" for every location
\* column whose text holds the suffix
RECURSIVE Flatten(_)
Flatten(ss) == IF ss = <<>> THEN <<>> ELSE Head(ss) \o Flatten(Tail(ss))
location_presence(row, locs) ==
    LET hit(loc, suf) ==
            loc \in DOMAIN row /\ ~row[loc].isnull /\ Contains(row[loc].str, suf)
        perLoc(loc) ==
            SelectSeq([j \in DOMAIN suffixes |->
                          IF hit(loc, suffixes[j]) THEN suffixes[j] \o sIn \o loc ELSE <<>>],
                      LAMBDA v : v # <<>>)
    IN  Join(Flatten([i \in DOMAIN locs |-> perLoc(locs[i])]), CommaSpace)

\* card_html that also writes the pairs with an empty value
card_html_all(lines) == lines

\* card_html(lines): the (label, value) pairs written into the card
card_html(lines) == SelectSeq(lines, LAMBDA lv : lv[2] # <<>>)

(***************************************************************************)
(* src/t2.py: the card layouts. Each returns the list "lines"; as_lines    *)
(* chooses between that list and card_html of it.                          *)
(***************************************************************************)
col_CEOName == <<"C","E","O"," ","N","a","m","e"," ">>
col_Designation == <<"D","e","s","i","g","n","a","t","i","o","n">>
col_CorporateName == <<"C","o","r","p","o","r","a","t","e"," ","N","a","m","e">>
col_BloombergCode == <<"B","l","o","o","m","b","e","r","g"," ","C","o","d","e">>
col_Sector == <<"S","e","c","t","o","r">>
col_SubSector == <<"S","u","b"," ","S","e","c","t","o","r">>
col_AnalystTeam == <<"R","e","l","e","v","a","n","t"," ","A","n","a","l","y","s","t"," ","T","e","a","m"," ","(","S","e","c","t","o","r"," ","W","i","s","e",")">>
col_HeadOffice == <<"H","e","a","d"," ","O","f","f","i","c","e">>
col_CFOConnects == <<"C","F","O"," ","C","o","n","n","e","c","t","s">>
col_Designation1 == <<"D","e","s","i","g","n","a","t","i","o","n",".","1">>
col_CEOCity == <<"C","E","O"," ","C","i","t","y">>
col_Name == <<"N","a","m","e">>
col_Segments == <<"S","e","g","m","e","n","t","s">>
col_Segment == <<"S","e","g","m","e","n","t">>
col_Company == <<"C","o","m","p","a","n","y">>
col_Description == <<"D","e","s","c","r","i","p","t","i","o","n">>
col_Location == <<"L","o","c","a","t","i","o","n">>
col_State == <<"S","t","a","t","e">>
col_DesignationArea == <<"D","e","s","i","g","n","a","t","i","o","n"," ","/"," ","A","r","e","a"," ","o","f"," ","E","x","p","e","r","t","i","s","e">>
col_FullName == <<"F","u","l","l"," ","N","a","m","e">>
col_IRAgency == <<"I","R"," ","A","g","e","n","c","y">>
col_Department == <<"D","e","p","a","r","t","m","e","n","t">>
col_Address == <<"A","d","d","r","e","s","s">>
col_Email == <<"E","m","a","i","l">>
col_PhoneNumber == <<"P","h","o","n","e"," ","N","u","m","b","e","r">>

lbl_CEO == <<"C","E","O"," ","&"," ","D","e","s","i","g","n","a","t","i","o","n">>
lbl_CorpCode == <<"C","o","r","p","o","r","a","t","e"," ","&"," ","B","l",".","C","o","d","e">>
lbl_SectorSub == <<"S","e","c","t","o","r"," ","&"," ","S","u","b","s","e","c","t","o","r">>
lbl_AnalystHO == <<"A","n","a","l","y","s","t"," ","&"," ","H","e","a","d"," ","O","f","f","i","c","e">>
lbl_CFO == <<"C","F","O"," ","C","o","n","n","e","c","t"," ","&"," ","D","e","s","i","g","n","a","t","i","o","n">>
lbl_LocPresence == <<"L","o","c","a","t","i","o","n"," ","P","r","e","s","e","n","c","e">>
lbl_SectorSegment == <<"S","e","c","t","o","r"," ","&"," ","S","e","g","m","e","n","t">>
lbl_CompanyDesc == <<"C","o","m","p","a","n","y"," ","&"," ","D","e","s","c","r","i","p","t","i","o","n">>
lbl_SectorDashSub == <<"S","e","c","t","o","r"," ","-"," ","S","u","b"," ","S","e","c","t","o","r">>
lbl_StateCity == <<"S","t","a","t","e"," ","&"," ","C","i","t","y">>
lbl_SectorCommaSub == <<"S","e","c","t","o","r",","," ","S","u","b"," ","S","e","c","t","o","r">>
lbl_EmailPhone == <<"E","m","a","i","l",","," ","P","h","o","n","e">>

listed_companies_card(row) ==
    LET analyst_team == combine_vals(row, <<col_AnalystTeam>>, CommaSpace)
        analyst_location == combine_vals(row, <<col_HeadOffice>>, CommaSpace)
        \* f"{analyst_team}, {analyst_location}".strip()
        analyst_team_and_loc == Strip(analyst_team \o CommaSpace \o analyst_location)
    IN  << <<lbl_CEO, combine_vals(row, <<col_CEOName, col_Designation>>, CommaSpace)>>,
           <<col_CEOCity, val(row, col_CEOCity)>>,
           <<lbl_CorpCode, combine_vals(row, <<col_CorporateName, col_BloombergCode>>, CommaSpace)>>,
           <<lbl_SectorSub, combine_vals(row, <<col_Sector, col_SubSector>>, CommaSpace)>>,
           <<lbl_AnalystHO, analyst_team_and_loc>>,
           <<lbl_CFO, combine_vals(row, <<col_CFOConnects, col_Designation1>>, CommaSpace)>>,
           <<lbl_LocPresence, location_presence(row, locations)>> >>

expert_confirmed_card(row) ==
    << <<col_Name, val(row, col_Name)>>,
       <<col_Designation, val(row, col_Designation)>>,
       <<lbl_SectorSegment, combine_vals(row, <<col_Sector, col_Segments>>, Space)>>,
       <<lbl_CompanyDesc, combine_vals(row, <<col_Company, col_Description>>, CommaSpace)>>,
       <<col_Location, val(row, col_Location)>> >>

expert_potential_card(row) ==
    << <<col_Name, val(row, col_Name)>>,
       <<col_Designation, val(row, col_Designation)>>,
       <<lbl_SectorSegment, combine_vals(row, <<col_Sector, col_Segment>>, Space)>>,
       <<lbl_CompanyDesc, combine_vals(row, <<col_Company, col_Description>>, CommaSpace)>>,
       <<col_Location, val(row, col_Location)>> >>

channel_checks_card(row) ==
    << <<col_Name, val(row, col_Name)>>,
       <<lbl_SectorDashSub, combine_vals(row, <<col_Sector, col_SubSector>>, SpaceDashSpace)>>,
       <<lbl_StateCity, combine_vals(row, <<col_State, col_Location>>, Space)>>,
       <<col_DesignationArea, val(row, col_DesignationArea)>> >>

ir_data_card(row) ==
    << <<col_BloombergCode, val(row, col_BloombergCode)>>,
       <<col_FullName, val(row, col_FullName)>>,
       <<lbl_SectorCommaSub, combine_vals(row, <<col_Sector, col_SubSector>>, CommaSpace)>>,
       <<col_IRAgency, val(row, col_IRAgency)>> >>

ministry_contacts_card(row) ==
    << <<col_Name, val(row, col_Name)>>,
       <<col_Designation, val(row, col_Designation)>>,
       <<col_Sector, val(row, col_Sector)>>,
       <<col_Department, val(row, col_Department)>>,
       <<col_Address, val(row, col_Address)>>,
       <<col_Email, combine_vals(row, <<col_Email, col_PhoneNumber>>, CommaSpace)>> >>

\* generic_card(row, columns)
generic_card(row, columns) ==
    LET email_phone == combine_vals(row, <<col_Email, col_PhoneNumber>>, CommaSpace)
    IN  SelectSeq([i \in DOMAIN columns |-> <<columns[i], val(row, columns[i])>>],
                  LAMBDA lv : lv[2] # <<>>)
        \o (IF email_phone # <<>> THEN << <<lbl_EmailPhone, email_phone>> >> ELSE <<>>)

(***************************************************************************)
(* src/t2.py: download_pdf_reportlab                                       *)
(***************************************************************************)
\* card_func is one of the six layouts, the lambda of line 779
\* (generic_card with df.columns[:8]) or generic_card itself, as the dashboard
\* passes it (lines 417, 474)
CardFuncs == {"listed_companies_card", "expert_confirmed_card", "expert_potential_card",
              "channel_checks_card", "ir_data_card", "ministry_contacts_card",
              "generic_lambda", "generic_card"}

\* columns[:n]
FirstN(s, n) == SubSeq(s, 1, IF Len(s) < n THEN Len(s) ELSE n)

\* the list "lines" that card_func builds for a row; cols are the columns of
\* the sheet's table (the lambda's df.columns)
Lines(cfunc, row, cols) ==
    CASE cfunc = "listed_companies_card" -> listed_companies_card(row)
      [] cfunc = "expert_confirmed_card" -> expert_confirmed_card(row)
      [] cfunc = "expert_potential_card" -> expert_potential_card(row)
      [] cfunc = "channel_checks_card" -> channel_checks_card(row)
      [] cfunc = "ir_data_card" -> ir_data_card(row)
      [] cfunc = "ministry_contacts_card" -> ministry_contacts_card(row)
      [] OTHER -> generic_card(row, FirstN(cols, 8))

\* card_func(row, as_lines=True) raises TypeError for generic_card itself: its
\* parameter "columns" is not given
CallRaises(cfunc) == cfunc = "generic_card"

\* dict(lines).get(field, ""): the value of the last pair with that label
DictGet(lines, field) ==
    LET at == {i \in DOMAIN lines : lines[i][1] = field}
    IN  IF at = {} THEN <<>> ELSE lines[CHOOSE i \in at : \A j \in at : j <= i][2]

\* lines 139-146 of download_pdf_reportlab, with the lines of every row and the
\* header labels at hand
build_table(rowlines, card_fields) ==
    \* line 146: total_width_mm / len(card_fields)
    [status |-> IF Len(card_fields) = 0 THEN "ZeroDivisionError" ELSE "pdf",
     nbytes |-> IF Len(card_fields) = 0 THEN "none" ELSE "some",
     card_fields |-> card_fields,
     table_data |-> <<card_fields>>
                    \o [i \in DOMAIN rowlines |->
                           [k \in DOMAIN card_fields |->
                               DictGet(rowlines[i], card_fields[k])]],
     lines |-> rowlines,
     landscape |-> Len(card_fields) > 8]

\* lines 91-93: card_fields are the labels of the first row's lines
card_fields_of(first_lines) == [k \in DOMAIN first_lines |-> first_lines[k][1]]

\* build_pdf with the header taken from the last row's lines
build_pdf_header_of_last_row(rowlines) ==
    build_table(rowlines, card_fields_of(rowlines[Len(rowlines)]))

build_pdf(rowlines) == build_table(rowlines, card_fields_of(rowlines[1]))

\* download_pdf_reportlab(filtered_df, card_func): what it returned or raised,
\* with the values it built on the way:
\*   status      "empty" (line 90), "pdf", or the exception raised
\*   nbytes      "zero" for the BytesIO() of line 90, "some" for a built document
\*   card_fields the header labels, from the first row (lines 91-93)
\*   table_data  the header row and one row per table row (lines 139-143)
\*   lines       what card_func(row, as_lines=True) returned for each row
\*   landscape   len(card_fields) > 8 (line 96)
download_pdf_reportlab(table, cfunc, cols) ==
    IF Len(table.rows) = 0
    THEN [status |-> "empty", nbytes |-> "zero", card_fields |-> <<>>,
          table_data |-> <<>>, lines |-> <<>>, landscape |-> FALSE]
    ELSE IF CallRaises(cfunc)
    THEN [status |-> "TypeError", nbytes |-> "none", card_fields |-> <<>>,
          table_data |-> <<>>, lines |-> <<>>, landscape |-> FALSE]
    ELSE build_pdf([i \in DOMAIN table.rows |-> Lines(cfunc, table.rows[i].cells, cols)])

NoPdf == [status |-> "none", nbytes |-> "none", card_fields |-> <<>>,
          table_data |-> <<>>, lines |-> <<>>, landscape |-> FALSE]

(***************************************************************************)
(* src/t2.py: the shape keywords                                           *)
(***************************************************************************)
kw_listed == <<"l","i","s","t","e","d"," ","c","o","m","p","a","n","i","e","s">>
kw_confirmed == <<"e","x","p","e","r","t"," ","c","o","n","f","i","r","m","e","d">>
kw_potential == <<"e","x","p","e","r","t"," ","p","o","t","e","n","t","i","a","l">>
kw_channel == <<"c","h","a","n","n","e","l"," ","c","h","e","c","k","s">>
kw_ir == <<"i","r"," ","d","a","t","a">>
kw_ministry == <<"m","i","n","i","s","t","r","y"," ","c","o","n","t","a","c","t","s">>

\* the if / elif chain of lines 626-763 over tab = selected_sheet.lower(), and
\* of lines 418-429 and 475-486 over sheet.lower()
Branch(sheet) ==
    LET tab == Lower(sheet)
    IN  IF Contains(tab, kw_listed) THEN "listed"
        ELSE IF Contains(tab, kw_confirmed) THEN "confirmed"
        ELSE IF Contains(tab, kw_potential) THEN "potential"
        ELSE IF Contains(tab, kw_channel) THEN "channel"
        ELSE IF Contains(tab, kw_ir) THEN "ir"
        ELSE IF Contains(tab, kw_ministry) THEN "ministry"
        ELSE "generic"

\* the card function the single-sheet view sets (lines 649 ... 779)
ViewCardFunc(sheet) ==
    LET b == Branch(sheet)
    IN  CASE b = "listed" -> "listed_companies_card"
          [] b = "confirmed" -> "expert_confirmed_card"
          [] b = "potential" -> "expert_potential_card"
          [] b = "channel" -> "channel_checks_card"
          [] b = "ir" -> "ir_data_card"
          [] b = "ministry" -> "ministry_contacts_card"
          [] OTHER -> "generic_lambda"

\* the card function the dashboard's document exports choose (lines 417-429,
\* 474-486)
DashCardFunc(sheet) ==
    LET b == Branch(sheet)
    IN  CASE b = "listed" -> "listed_companies_card"
          [] b = "confirmed" -> "expert_confirmed_card"
          [] b = "potential" -> "expert_potential_card"
          [] b = "channel" -> "channel_checks_card"
          [] b = "ir" -> "ir_data_card"
          [] b = "ministry" -> "ministry_contacts_card"
          [] OTHER -> "generic_card"

(***************************************************************************)
(* src/t2.py: get_unique, multi_col_name_search and the sidebar widgets    *)
(***************************************************************************)
\* get_unique(df, cols): the stripped, non-empty texts of the non-null cells
\* of the columns that exist (a set: the order of the options plays no part)
get_unique(df, cols) ==
    LET present == {c \in Range(cols) : HasCol(df, c)}
        cells == {df.rows[i].cells[c] : i \in DOMAIN df.rows, c \in present}
    IN  {Strip(v.str) : v \in {v \in cells : ~v.isnull}} \ {<<>>}

\* multi_col_name_search(df, search, cols) for one row
multi_col_name_search(df, row, search, cols) ==
    IF Strip(search) = <<>> THEN TRUE
    ELSE \E c \in Range(cols) : HasCol(df, c) /\ RegexSearch(search, AsStr(row[c]))

\* df[col].astype(str).isin(selected) for one row
Isin(row, col, selected) == AsStr(row[col]) \in selected

\* what a user can choose in st.multiselect(label, options): nothing, one
\* option, or all of them
MultiChoices(options) == {{}} \cup {{o} : o \in options} \cup {options}
\* what a user can choose in st.selectbox(label, [""] + suggestions)
SelectChoices(suggestions) == {<<>>} \cup suggestions
\* what a user can type into st.text_input of the generic branch
TextChoices == {<<>>, <<"x">>}

key_city == <<"c","i","t","y","_","s","e","a","r","c","h">>
key_designation == <<"d","e","s","i","g","n","a","t","i","o","n","_","s","e","a","r","c","h">>
col_Coverage == <<"C","o","v","e","r","a","g","e">>
col_SEBI == <<"S","E","B","I"," ","C","l","a","s","s","i","f","i","c","a","t","i","o","n">>
col_RelationLead == <<"R","e","l","a","t","i","o","n"," ","l","e","a","d"," ","(","R","e","s","e","a","r","c","h"," ","/"," ","C","o","r","p"," ","A","c","c","e","s","s"," ","/"," ","I","B"," ","/"," ","I","R"," ","A","g","e","n","c","y"," ","/"," ","P","a","r","e","n","t"," ","/"," ","S","a","l","e","s",")">>
col_AnalystTeamPlain == <<"R","e","l","e","v","a","n","t"," ","A","n","a","l","y","s","t"," ","T","e","a","m"," ","S","e","c","t","o","r"," ","W","i","s","e">>
col_CityCol == <<"C","i","t","y">>

\* the name_cols of the listed companies branch (line 627)
lc_name_cols == <<col_CEOName, col_CFOConnects, col_AnalystTeamPlain>>

\* filter_fields of each branch (lines 630, 658, 687, 740, 752, 764): the
\* columns that get a multiselect into filters[col]
FilterFields(b, df) ==
    CASE b = "listed" -> {col_CorporateName, col_BloombergCode, col_Sector, col_Coverage,
                          col_SEBI, col_RelationLead, col_HeadOffice}
      [] b = "confirmed" -> {col_Sector, col_Segments, col_Company, col_Description}
      [] b = "potential" -> {col_Sector, col_Segment, col_Company, col_Description}
      [] b = "channel" -> {}
      [] OTHER -> Range(df.columns)

\* the designation column of the channel checks branch (line 720)
cc_designation_col(df) ==
    IF HasCol(df, col_DesignationArea) THEN col_DesignationArea ELSE col_Designation

\* the multiselects outside filters: widget -> the column its options come from
ExtraSelects(b, df) ==
    CASE b \in {"confirmed", "potential"} ->
             (key_designation :> col_Designation) @@ (key_city :> col_Location)
      [] b = "channel" ->
             (col_Sector :> col_Sector) @@ (col_SubSector :> col_SubSector)
             @@ (col_State :> col_State) @@ (key_city :> col_Location)
             @@ (key_designation :> cc_designation_col(df))
      [] OTHER -> <<>>

\* the column each of those multiselects is applied to (lines 670-673, 699-702,
\* 726-735)
ExtraApplied(b, df) ==
    CASE b = "confirmed" ->
             (key_designation :> col_Designation) @@ (key_city :> col_CityCol)
      [] b = "potential" ->
             (key_designation :> col_Designation) @@ (key_city :> col_Location)
      [] b = "channel" ->
             (col_Sector :> col_Sector) @@ (col_SubSector :> col_SubSector)
             @@ (col_State :> col_State) @@ (key_city :> col_Location)
             @@ (key_designation :> cc_designation_col(df))
      [] OTHER -> <<>>

\* the name search box of a branch: its suggestions
NameSuggestions(b, df) ==
    CASE b = "listed" -> get_unique(df, lc_name_cols)
      [] b \in {"confirmed", "potential", "channel"} -> get_unique(df, <<col_Name>>)
      [] OTHER -> {}

\* in the generic branch a column gets a multiselect when it has between 2 and
\* 99 distinct values, and a text input otherwise (line 767)
GenericIsMulti(df, c) ==
    LET n == Cardinality(get_unique(df, <<c>>)) IN n > 1 /\ n < 100

\* the values of filters[col] a user can set for column c
FilterChoices(b, df, c) ==
    IF b = "generic" /\ ~GenericIsMulti(df, c)
    THEN {TextSel(t) : t \in TextChoices}
    ELSE {ListSel(v) : v \in MultiChoices(get_unique(df, <<c>>))}

\* the number of widgets of a setting that are not left at their default
ActiveCount(w) ==
    (IF w.name_search # <<>> THEN 1 ELSE 0)
    + Cardinality({k \in DOMAIN w.extra : w.extra[k] # {}})
    + Cardinality({c \in DOMAIN w.filters : Truthy(w.filters[c])})

\* every function f on the keys K with f[k] in choice[k]
RECURSIVE FuncsOver(_, _)
FuncsOver(K, choice) ==
    IF K = {} THEN {<<>>}
    ELSE LET k == CHOOSE k \in K : TRUE
         IN  {(k :> v) @@ f : v \in choice[k], f \in FuncsOver(K \ {k}, choice)}

\* the settings of the sidebar for the sheet, [name_search, extra, filters],
\* with at most two widgets set
Widgets(b, df) ==
    LET ff == FilterFields(b, df)
        ex == ExtraSelects(b, df)
        exChoice == [k \in DOMAIN ex |-> MultiChoices(get_unique(df, <<ex[k]>>))]
        ffChoice == [c \in ff |-> FilterChoices(b, df, c)]
        all == {[name_search |-> n, extra |-> e, filters |-> f] :
                   n \in SelectChoices(NameSuggestions(b, df)),
                   e \in FuncsOver(DOMAIN ex, exChoice),
                   f \in FuncsOver(ff, ffChoice)}
    IN  {w \in all : ActiveCount(w) <= 2}

\* the mask of the branch for one row (lines 642-647, 667-676, 696-705,
\* 723-735, 744-747, 756-759, 771-777)
ViewKeeps(b, df, w, row) ==
    /\ w.name_search # <<>> =>
           IF b = "listed"
           THEN multi_col_name_search(df, row, w.name_search, lc_name_cols)
           ELSE AsStr(row[col_Name]) = w.name_search
    /\ \A k \in DOMAIN w.extra :
           (w.extra[k] # {} /\ HasCol(df, ExtraApplied(b, df)[k]))
               => Isin(row, ExtraApplied(b, df)[k], w.extra[k])
    /\ \A c \in DOMAIN w.filters :
           (HasCol(df, c) /\ Truthy(w.filters[c])) => CellPasses(row[c], w.filters[c])

\* df[mask]
Masked(df, keep(_)) ==
    [columns |-> df.columns, rows |-> SelectSeq(df.rows, LAMBDA r : keep(r.cells))]

(***************************************************************************)
(* The workbooks of the model: one table per sheet, its rows drawn from a  *)
(* few values per column                                                   *)
(***************************************************************************)
MaxSheetRows == 2

sAnn == <<"A","n","n">>
sBoPadded == <<" ","B","o">>
sADotN == <<"A",".","n">>
sT1 == <<"T","1">>
sPune == <<"P","u","n","e">>
sAgra == <<"A","g","r","a">>
sCO == <<"C","O">>
sAuto == <<"A","u","t","o">>
sGoa == <<"G","o","a">>
sMail == <<"a","@","b">>
sPhone == <<"1","2">>
sBlank == <<" ">>
sV == <<"v">>
col_Mumbai == <<"M","u","m","b","a","i">>
col_Remark == <<"R","e","m","a","r","k">>

\* a sheet template: the sheet's name, its columns, and the values a cell of
\* each column may hold
Template(name, columns, values) == [name |-> name, columns |-> columns, values |-> values]

tpl_listed ==
    Template(<<"L","i","s","t","e","d"," ","C","o","m","p","a","n","i","e","s">>,
             <<col_CEOName, col_AnalystTeam, col_HeadOffice, col_Mumbai>>,
             (col_CEOName :> {NaN, Cell(sAnn)}) @@ (col_AnalystTeam :> {NaN, Cell(sT1)})
             @@ (col_HeadOffice :> {NaN, Cell(sPune)}) @@ (col_Mumbai :> {Cell(sCO)}))
\* a listed companies sheet with two of the name columns of line 627
tpl_listed_names ==
    Template(<<"L","i","s","t","e","d"," ","C","o","m","p","a","n","i","e","s">>,
             <<col_CEOName, col_CFOConnects, col_HeadOffice>>,
             (col_CEOName :> {Cell(sAnn), Cell(sADotN)})
             @@ (col_CFOConnects :> {NaN, Cell(sAnn)})
             @@ (col_HeadOffice :> {Cell(sPune), Cell(sAgra)}))

tpl_confirmed ==
    Template(<<"E","x","p","e","r","t"," ","C","o","n","f","i","r","m","e","d">>,
             <<col_Name, col_Sector, col_Location>>,
             (col_Name :> {Cell(sAnn), Cell(sBoPadded)}) @@ (col_Sector :> {Cell(sTech)})
             @@ (col_Location :> {Cell(sPune), Cell(sAgra)}))
tpl_potential ==
    Template(<<"E","x","p","e","r","t"," ","P","o","t","e","n","t","i","a","l">>,
             <<col_Name, col_Segment, col_Location>>,
             (col_Name :> {Cell(sAnn)}) @@ (col_Segment :> {NaN, Cell(sAuto)})
             @@ (col_Location :> {Cell(sPune), Cell(sAgra)}))
tpl_channel ==
    Template(<<"C","h","a","n","n","e","l"," ","C","h","e","c","k","s">>,
             <<col_Name, col_State, col_Location>>,
             (col_Name :> {Cell(sAnn)}) @@ (col_State :> {NaN, Cell(sGoa)})
             @@ (col_Location :> {Cell(sPune), Cell(sAgra)}))
tpl_ir ==
    Template(<<"I","R"," ","D","a","t","a">>,
             <<col_FullName, col_Sector>>,
             (col_FullName :> {NaN, Cell(sAnn)}) @@ (col_Sector :> {NaN, Cell(sTech)}))
tpl_ministry ==
    Template(<<"M","i","n","i","s","t","r","y"," ","C","o","n","t","a","c","t","s">>,
             <<col_Name, col_Email, col_PhoneNumber>>,
             (col_Name :> {Cell(sAnn)}) @@ (col_Email :> {NaN, Cell(sMail)})
             @@ (col_PhoneNumber :> {NaN, Cell(sPhone)}))
tpl_other ==
    Template(<<"O","t","h","e","r">>,
             <<col_Remark, col_Email>>,
             (col_Remark :> {NaN, Cell(sBlank), Cell(sX)}) @@ (col_Email :> {NaN, Cell(sMail)}))
\* a sheet of nine columns: the generic layout takes the first eight
WideCols == <<<<"A">>, <<"B">>, <<"C">>, <<"D">>, <<"E">>, <<"F">>, <<"G">>, <<"H">>, <<"I">>>>
tpl_wide ==
    Template(<<"D","e","a","l","e","r","s"," ","2","0","2","4">>, WideCols,
             [c \in Range(WideCols) |->
                 IF c = WideCols[1] THEN {NaN, Cell(sX)} ELSE {Cell(sV)}])

Templates == {tpl_listed, tpl_listed_names, tpl_confirmed, tpl_potential, tpl_channel, tpl_ir,
              tpl_ministry, tpl_other, tpl_wide}

\* every row over the columns, each cell from the values of its column
RECURSIVE RowsOver(_, _)
RowsOver(columns, values) ==
    IF columns = <<>> THEN {<<>>}
    ELSE {(Head(columns) :> v) @@ r :
             v \in values[Head(columns)], r \in RowsOver(Tail(columns), values)}
RowsOf(t) == RowsOver(t.columns, t.values)
TablesOf(t, n) == {Frame(t.columns, rs) : rs \in SeqsUpTo(RowsOf(t), n)}

\* sheets for the dashboard: one of a known shape with a sector and a location
\* column, one of no known shape with a name-like and a market cap column, one
\* with neither
col_MarketCap == <<"M","a","r","k","e","t"," ","C","a","p">>
sLarge == <<"L","a","r","g","e">>
dsh_confirmed ==
    Template(<<"E","x","p","e","r","t"," ","C","o","n","f","i","r","m","e","d">>, <<col_Name, col_Sector, col_Location>>,
             (col_Name :> {Cell(sAnn)}) @@ (col_Sector :> {NaN, Cell(sTech)})
             @@ (col_Location :> {Cell(sPune)}))
dsh_other ==
    Template(<<"O","t","h","e","r">>, <<col_FullName, col_MarketCap>>,
             (col_FullName :> {Cell(sBoPadded)}) @@ (col_MarketCap :> {Cell(sLarge)}))
dsh_ir ==
    Template(<<"I","R"," ","D","a","t","a">>, <<col_Remark>>, (col_Remark :> {Cell(sX)}))

\* load_excel: the sheets in workbook order, each [name, df]
Workbooks ==
    UNION {{<<[name |-> t.name, df |-> d]>> : d \in TablesOf(t, MaxSheetRows)} :
              t \in Templates}

\* the workbooks of two sheets
MaxDashRows == 2
DashPairs == {<<dsh_confirmed, dsh_other>>, <<dsh_other, dsh_ir>>}
DashWorkbooks ==
    UNION {{<<[name |-> pr[1].name, df |-> d1], [name |-> pr[2].name, df |-> d2]>> :
               d1 \in TablesOf(pr[1], MaxDashRows), d2 \in TablesOf(pr[2], MaxDashRows)} :
              pr \in DashPairs}

(***************************************************************************)
(* src/t2.py: the script after an upload, single-sheet view (lines 620-796)*)
(***************************************************************************)
AppIdle ==
    /\ aphase = "loaded"
    /\ selected_sheet = <<>>
    /\ widgets = <<>>
    /\ filtered_df = <<>>
    /\ card_func = "none"
    /\ pdf = NoPdf
    /\ cards = <<>>
    /\ dash = <<>>

\* lines 781-796: the document export and, when that returned, the cards
view_result(sheet, cols, w, fd, cf, p) ==
    [selected_sheet |-> sheet, widgets |-> w, filtered_df |-> fd,
     card_func |-> cf, pdf |-> p,
     cards |-> IF p.status \in {"empty", "pdf"}
               THEN [k \in DOMAIN fd.rows |-> card_html(Lines(cf, fd.rows[k].cells, cols))]
               ELSE <<>>]

view_export(sheet, cols, w, fd, cf) ==
    view_result(sheet, cols, w, fd, cf, download_pdf_reportlab(fd, cf, cols))

view_mask(b, df, w) == Masked(df, LAMBDA row : ViewKeeps(b, df, w, row))

\* One run of the script with a sheet selected and the sidebar set to w: the
\* mask, the card function, the document export (line 781) and the cards
\* (line 796)
ViewRun(sheet, df, w) ==
    view_export(sheet, df.columns, w, view_mask(Branch(sheet), df, w), ViewCardFunc(sheet))

ViewRuns(sheet, df) == {ViewRun(sheet, df, w) : w \in Widgets(Branch(sheet), df)}

ViewSheet ==
    /\ aphase = "loaded"
    /\ \E i \in DOMAIN dfs :
           \E r \in ViewRuns(dfs[i].name, dfs[i].df) :
               /\ aphase' = "sheet"
               /\ selected_sheet' = r.selected_sheet
               /\ widgets' = r.widgets
               /\ filtered_df' = r.filtered_df
               /\ card_func' = r.card_func
               /\ pdf' = r.pdf
               /\ cards' = r.cards
               /\ UNCHANGED <<dfs, dash, vvars, fvars>>

(***************************************************************************)
(* src/t2.py: all_dashboard (lines 303-512)                                *)
(***************************************************************************)
col_sheet == <<"_","s","h","e","e","t">>
sAll == <<"A","l","l">>
lit_name == <<"n","a","m","e">>
lit_market_cap == <<"m","a","r","k","e","t"," ","c","a","p">>
location_keywords == {<<"l","o","c","a","t","i","o","n">>, <<"c","i","t","y">>, <<"s","t","a","t","e">>, <<"a","d","d","r","e","s","s">>}

\* the elements of s in the order of their first appearance
Uniq(s) ==
    LET first == {i \in DOMAIN s : \A j \in 1..(i - 1) : s[j] # s[i]}
        nth(k) == CHOOSE i \in first : Cardinality({j \in first : j < i}) = k - 1
    IN  [k \in 1..Cardinality(first) |-> s[nth(k)]]

\* pd.concat([df.assign(_sheet=sheet) ...], ignore_index=True): the columns in
\* the order of first appearance, every row tagged with its sheet, a column
\* the row's sheet lacks holding NaN
concat_tagged(sheets) ==
    LET cols == Uniq(Flatten([i \in DOMAIN sheets |->
                                 sheets[i].df.columns \o <<col_sheet>>]))
        tagged(i) ==
            [k \in DOMAIN sheets[i].df.rows |->
                [c \in Range(cols) |->
                    IF c = col_sheet THEN Cell(sheets[i].name)
                    ELSE IF HasCol(sheets[i].df, c) THEN sheets[i].df.rows[k].cells[c]
                    ELSE NaN]]
    IN  Frame(cols, Flatten([i \in DOMAIN sheets |-> tagged(i)]))

\* [c for c in columns if "name" in c.lower()]
name_cols_of(columns) == SelectSeq(columns, LAMBDA c : Contains(Lower(c), lit_name))
\* [c for c in columns if any(x in c.lower() for x in [...])]
location_cols_of(columns) ==
    SelectSeq(columns, LAMBDA c : \E x \in location_keywords : Contains(Lower(c), x))
\* line 324
sector_col_of(all_df) ==
    IF HasCol(all_df, col_Sector) THEN col_Sector ELSE all_df.columns[1]
\* lines 325-329: the first column with "market cap" in its name, as a list of
\* at most one column (empty for None)
market_cap_col_of(all_df) ==
    FirstN(SelectSeq(all_df.columns, LAMBDA c : Contains(Lower(c), lit_market_cap)), 1)

\* the sheet of that name
SheetNamed(sheets, name) == sheets[CHOOSE i \in DOMAIN sheets : sheets[i].name = name]
SheetNames(sheets) == [i \in DOMAIN sheets |-> sheets[i].name]

\* lines 345-347: dfs restricted to the selected sheets, in the order selected;
\* an empty selection leaves dfs as it was
selected_dfs(sheets, selected_sheets) ==
    IF selected_sheets = <<>> THEN sheets
    ELSE [k \in DOMAIN selected_sheets |-> SheetNamed(sheets, selected_sheets[k])]

\* line 350
any_filter_used(w, mcol) ==
    \/ w.name_search # <<>>
    \/ w.sector_search # {}
    \/ (mcol # <<>> /\ w.market_cap_search # {})
    \/ w.location_search # <<>>

\* which of the four axes touch a sheet (lines 358-360, 365, 370, 375-377)
name_applies(df, w) == w.name_search # <<>> /\ name_cols_of(df.columns) # <<>>
sector_applies(df, w, scol) == w.sector_search # {} /\ HasCol(df, scol)
market_cap_applies(df, w, mcol) ==
    mcol # <<>> /\ HasCol(df, mcol[1]) /\ w.market_cap_search # {}
location_applies(df, w) == w.location_search # <<>> /\ location_cols_of(df.columns) # <<>>

\* filter_applied set for every sheet, whether or not an axis touches it
filter_applied_always(df, w, scol, mcol) == TRUE

\* filter_applied after the four blocks
filter_applied(df, w, scol, mcol) ==
    \/ name_applies(df, w)
    \/ sector_applies(df, w, scol)
    \/ market_cap_applies(df, w, mcol)
    \/ location_applies(df, w)

\* mask for one row of a sheet (lines 354-382)
dashboard_mask(df, w, scol, mcol, row) ==
    /\ name_applies(df, w) =>
           multi_col_name_search(df, row, w.name_search, name_cols_of(df.columns))
    /\ sector_applies(df, w, scol) => Isin(row, scol, w.sector_search)
    /\ market_cap_applies(df, w, mcol) => Isin(row, mcol[1], w.market_cap_search)
    /\ location_applies(df, w) =>
           \E c \in Range(location_cols_of(df.columns)) :
               RegexSearch(w.location_search, AsStr(row[c]))

\* one pass of the loop of lines 353-384 for a sheet
sheet_group(sh, w, scol, mcol) ==
    [sheet |-> sh.name,
     applied |-> filter_applied(sh.df, w, scol, mcol),
     df |-> Masked(sh.df, LAMBDA row : dashboard_mask(sh.df, w, scol, mcol, row))]

sheet_groups(sel, w, scol, mcol) ==
    [i \in DOMAIN sel |-> sheet_group(sel[i], w, scol, mcol)]

\* shown_groups without the test "not filtered_df.empty"
shown_groups_keep_empty(groups) == SelectSeq(groups, LAMBDA g : g.applied)

\* line 386: a sheet is shown, and entered into filtered_dfs, only if
\* filter_applied and the result is not empty
shown_groups(groups) == SelectSeq(groups, LAMBDA g : g.applied /\ Len(g.df.rows) # 0)

\* lines 353-389: per selected sheet, in order, the rows the mask keeps
filtered_groups(sheets, all_df, w) ==
    shown_groups(sheet_groups(selected_dfs(sheets, w.selected_sheets), w,
                              sector_col_of(all_df), market_cap_col_of(all_df)))

\* lines 417-432 (474-489) for one sheet
export_one(g, cf) ==
    [sheet |-> g.sheet, table |-> g.df, card_func |-> cf,
     pdf |-> download_pdf_reportlab(g.df, cf, g.df.columns)]

\* an exception leaves the loop, and the script, at the sheet that raised
up_to_first_raise(results) ==
    LET bad == {i \in DOMAIN results : results[i].pdf.status \notin {"empty", "pdf"}}
    IN  IF bad = {} THEN results
        ELSE SubSeq(results, 1, CHOOSE i \in bad : \A j \in bad : i <= j)

\* the loops of lines 415-432 and 472-489: one document per sheet, in order
export_loop(groups) ==
    up_to_first_raise([i \in DOMAIN groups |->
                          export_one(groups[i], DashCardFunc(groups[i].sheet))])

NoDownload == [download_option |-> "none", sheet_to_download |-> <<>>]

\* the radio of line 393 and the multiselect of line 450, shown only when
\* filtered_dfs is not empty
DownloadChoices(keys) ==
    IF keys = <<>> THEN {NoDownload}
    ELSE {[download_option |-> "combined", sheet_to_download |-> <<>>]}
         \cup {[download_option |-> "choose", sheet_to_download |-> ks] :
                  ks \in {keys, <<>>} \cup {<<keys[i]>> : i \in DOMAIN keys}}

\* what a user can choose in "Select Sheet(s)": the default (all), nothing, or
\* one sheet
SheetChoices(names) == {names, <<>>} \cup {<<names[i]>> : i \in DOMAIN names}

\* the number of axes of a setting that are not left at their default
ActiveAxes(w) ==
    (IF w.name_search # <<>> THEN 1 ELSE 0) + (IF w.sector_search # {} THEN 1 ELSE 0)
    + (IF w.market_cap_search # {} THEN 1 ELSE 0) + (IF w.location_search # <<>> THEN 1 ELSE 0)

\* the settings of the dashboard's sidebar (lines 322-342), with at most two
\* axes set
axes_over(names, name_sugg, sector_sugg, market_cap_sugg, location_sugg) ==
    {w \in [selected_sheets : SheetChoices(names),
            name_search : SelectChoices(name_sugg),
            sector_search : MultiChoices(sector_sugg),
            market_cap_search : MultiChoices(market_cap_sugg),
            location_search : SelectChoices(location_sugg)] :
        ActiveAxes(w) <= 2}

DashAxes(sheets, all_df) ==
    axes_over(SheetNames(sheets),
              get_unique(all_df, name_cols_of(all_df.columns)),
              get_unique(all_df, <<sector_col_of(all_df)>>),
              get_unique(all_df, market_cap_col_of(all_df)),
              get_unique(all_df, location_cols_of(all_df.columns)))

\* One run of all_dashboard with the sidebar set to w and the download widgets
\* to d:
\*   mode      "filtered" (lines 351-504) or "all" (lines 507-512)
\*   shown     the subheaders and tables of lines 387-388: sheet, count, rows
\*   union     the table of line 508
\*   exports   the documents built by the export loop, up to one that raised
\*   excel     the workbook download of lines 401-411 / 458-468 was offered
\*   delivered the combined document download was offered (lines 442, 498)
\*   raised    the exception that ended the script, or "none"
dash_filtered(groups, chosen, exports) ==
    LET failed == exports # <<>>
                  /\ exports[Len(exports)].pdf.status \notin {"empty", "pdf"}
    IN  [mode |-> "filtered",
         shown |-> [i \in DOMAIN groups |->
                       [sheet |-> groups[i].sheet, count |-> Len(groups[i].df.rows),
                        df |-> groups[i].df]],
         union |-> <<>>,
         exports |-> exports,
         excel |-> chosen # <<>>,
         delivered |-> chosen # <<>> /\ ~failed,
         raised |-> IF failed THEN exports[Len(exports)].pdf.status ELSE "none"]

\* dash_unfiltered without line 347: the table of every sheet, whatever was
\* selected
dash_unfiltered_every_sheet(all_df, w) ==
    [mode |-> "all", shown |-> <<>>, union |-> all_df,
     exports |-> <<>>, excel |-> TRUE, delivered |-> FALSE, raised |-> "none"]

dash_unfiltered(all_df, w) ==
    [mode |-> "all", shown |-> <<>>,
     \* line 347: all_df[all_df["_sheet"].isin(selected_sheets)].reset_index(drop=True)
     union |-> IF w.selected_sheets = <<>> THEN all_df
               ELSE Frame(all_df.columns,
                          SelectSeq(Content(all_df),
                                    LAMBDA cells : cells[col_sheet].str
                                                      \in Range(w.selected_sheets))),
     exports |-> <<>>, excel |-> TRUE, delivered |-> FALSE, raised |-> "none"]

\* the sheets whose documents are built: all of filtered_dfs (line 415) or the
\* chosen ones (line 472)
chosen_groups(groups, d) ==
    IF d.download_option = "combined" THEN groups
    ELSE [k \in DOMAIN d.sheet_to_download |->
             groups[CHOOSE i \in DOMAIN groups : groups[i].sheet = d.sheet_to_download[k]]]

dash_exported(groups, chosen) == dash_filtered(groups, chosen, export_loop(chosen))

DashRun(all_df, groups, w, d) ==
    IF any_filter_used(w, market_cap_col_of(all_df))
    THEN dash_exported(groups, chosen_groups(groups, d))
    ELSE dash_unfiltered(all_df, w)

\* the runs with the sidebar set to w: the download widgets exist only when
\* some sheet is shown
DashRunsWith(all_df, groups, w) ==
    {[widgets |-> [axes |-> w, download |-> d], dash |-> DashRun(all_df, groups, w, d)] :
        d \in DownloadChoices([i \in DOMAIN groups |-> groups[i].sheet])}

DashRunsOver(sheets, all_df) ==
    UNION {DashRunsWith(all_df,
                        IF any_filter_used(w, market_cap_col_of(all_df))
                        THEN filtered_groups(sheets, all_df, w)
                        ELSE <<>>,
                        w) : w \in DashAxes(sheets, all_df)}

DashRuns(sheets) == DashRunsOver(sheets, concat_tagged(sheets))

\* line 315 with the tag written into each table itself (df["_sheet"] = sheet)
\* instead of df.assign(_sheet=sheet)
loaded_tagged_in_place(sheets) ==
    [i \in DOMAIN sheets |->
        [name |-> sheets[i].name,
         df |-> [columns |-> sheets[i].df.columns \o <<col_sheet>>,
                 rows |-> [k \in DOMAIN sheets[i].df.rows |->
                              [label |-> sheets[i].df.rows[k].label,
                               cells |-> sheets[i].df.rows[k].cells
                                         @@ (col_sheet :> Cell(sheets[i].name))]]]]]

\* the script's dfs after all_dashboard(dfs) returned: df.assign (line 315),
\* all_df[...] (line 347) and df[mask] (line 384) build new tables, and line
\* 346 binds a new dict to the function's own name
loaded_after_dashboard(sheets) == sheets

\* One run of the script with "All" selected (line 617)
ViewAll ==
    /\ aphase = "loaded"
    /\ \E r \in DashRuns(dfs) :
           /\ aphase' = "all"
           /\ selected_sheet' = sAll
           /\ widgets' = r.widgets
           /\ dash' = r.dash
           /\ dfs' = loaded_after_dashboard(dfs)
           /\ UNCHANGED <<filtered_df, card_func, pdf, cards, vvars, fvars>>

\* the next interaction runs the script anew on the uploaded workbook
NextInteraction ==
    /\ aphase # "loaded"
    /\ aphase' = "loaded"
    /\ selected_sheet' = <<>>
    /\ widgets' = <<>>
    /\ filtered_df' = <<>>
    /\ card_func' = "none"
    /\ pdf' = NoPdf
    /\ cards' = <<>>
    /\ dash' = <<>>
    /\ UNCHANGED <<dfs, vvars, fvars>>

(***************************************************************************)
(* Claims on the cards and the document export                             *)
(***************************************************************************)
FixedShapes == CardFuncs \ {"generic_lambda", "generic_card"}

Exports ==
    IF aphase = "sheet"
    THEN {[sheet |-> selected_sheet, table |-> filtered_df, pdf |-> pdf]}
    ELSE IF aphase = "all"
    THEN {[sheet |-> dash.exports[i].sheet, table |-> dash.exports[i].table,
           pdf |-> dash.exports[i].pdf] : i \in DOMAIN dash.exports}
    ELSE {}

\* C8: the export of an empty filtered table returns a zero-byte artifact with
\* no header row; the export of a non-empty filtered table builds a table of
\* exactly len(rows)+1 rows, the header row followed by one data row per table
\* row, in table order.
C8_EmptyOrHeaderPlusRows ==
    \A e \in Exports :
        IF Len(e.table.rows) = 0
        THEN e.pdf.nbytes = "zero" /\ e.pdf.table_data = <<>>
        ELSE /\ Len(e.pdf.table_data) = Len(e.table.rows) + 1
             /\ e.pdf.table_data[1] = e.pdf.card_fields
             /\ \A i \in DOMAIN e.table.rows :
                    \A k \in DOMAIN e.pdf.card_fields :
                        e.pdf.table_data[i + 1][k]
                            = DictGet(e.pdf.lines[i], e.pdf.card_fields[k])

\* C9: a sheet whose name holds none of the six shape keywords is exported
\* with the generic shape and the export does not fail, in the single-sheet
\* view and in both document exports of the dashboard.
C9_GenericFallbackNeverFails ==
    \A e \in Exports :
        Branch(e.sheet) = "generic" => e.pdf.status \in {"empty", "pdf"}

(***************************************************************************)
(* Claims on the dashboard                                                 *)
(***************************************************************************)
\* the checks of the active axes that a sheet has a column for: the name
\* search over its name-like columns, the sector and market cap selections
\* over the sector and market cap column, the location search over its
\* location-like columns
AxisChecks(df, cells, w, scol, mcol) ==
    LET names == {c \in Range(df.columns) : Contains(Lower(c), lit_name)}
        locs == {c \in Range(df.columns) :
                    \E x \in location_keywords : Contains(Lower(c), x)}
    IN  (IF w.name_search # <<>> /\ names # {}
         THEN {\E c \in names : RegexSearch(w.name_search, AsStr(cells[c]))} ELSE {})
        \cup (IF w.sector_search # {} /\ scol \in Range(df.columns)
              THEN {AsStr(cells[scol]) \in w.sector_search} ELSE {})
        \cup (IF w.market_cap_search # {} /\ mcol # <<>> /\ mcol[1] \in Range(df.columns)
              THEN {AsStr(cells[mcol[1]]) \in w.market_cap_search} ELSE {})
        \cup (IF w.location_search # <<>> /\ locs # {}
              THEN {\E c \in locs : RegexSearch(w.location_search, AsStr(cells[c]))} ELSE {})

\* per selected sheet: whether some check applies to it, and its rows that
\* pass every check, in the sheet's order
Matching ==
    LET w == widgets.axes
        all_df == concat_tagged(dfs)
        scol == sector_col_of(all_df)
        mcol == market_cap_col_of(all_df)
        sel == selected_dfs(dfs, w.selected_sheets)
    IN  [i \in DOMAIN sel |->
            [sheet |-> sel[i].name,
             columns |-> sel[i].df.columns,
             nrows |-> Len(sel[i].df.rows),
             checked |-> \E j \in DOMAIN sel[i].df.rows :
                            AxisChecks(sel[i].df, sel[i].df.rows[j].cells, w, scol, mcol) # {},
             rows |-> SelectSeq(sel[i].df.rows,
                                LAMBDA r : AxisChecks(sel[i].df, r.cells, w, scol, mcol)
                                              \subseteq {TRUE})]]

\* the dashboard's list against the matching rows m of the selected sheets
ListsMatching(listed, m) ==
    LET at(k) == CHOOSE i \in DOMAIN m : m[i].sheet = listed[k].sheet
    IN  /\ \A k \in DOMAIN listed :
               /\ \E i \in DOMAIN m : m[i].sheet = listed[k].sheet
               /\ listed[k].df.columns = m[at(k)].columns
               /\ listed[k].df.rows = m[at(k)].rows
               /\ listed[k].count = Len(m[at(k)].rows)
               /\ listed[k].count >= 1
        /\ \A k1, k2 \in DOMAIN listed : k1 < k2 => at(k1) < at(k2)
        /\ \A i \in DOMAIN m :
               m[i].rows = <<>> => \A k \in DOMAIN listed : listed[k].sheet # m[i].sheet
        /\ \A i \in DOMAIN m :
               (m[i].rows # <<>> /\ m[i].checked) =>
                   \E k \in DOMAIN listed : listed[k].sheet = m[i].sheet

TaggedRows(union, name, cols) ==
    LET mine == SelectSeq(Content(union), LAMBDA cells : cells[col_sheet] = Cell(name))
    IN  [k \in DOMAIN mine |-> [c \in Range(cols) |-> mine[k][c]]]

\* C11: with no axis active the dashboard shows the union of the tables of the
\* selected sheets (of all sheets when the selection is left empty), unfiltered:
\* every row of every such sheet appears exactly once, tagged with its sheet's
\* name, and the union has as many rows as those sheets together.
C11_UnfilteredUnionOfSelected ==
    (aphase = "all" /\ dash.mode = "all") =>
        LET sel == selected_dfs(dfs, widgets.axes.selected_sheets)
        IN  /\ \A i \in DOMAIN sel :
                   TaggedRows(dash.union, sel[i].name, sel[i].df.columns)
                       = Content(sel[i].df)
            /\ \A k \in DOMAIN dash.union.rows :
                   \E i \in DOMAIN sel :
                       dash.union.rows[k].cells[col_sheet] = Cell(sel[i].name)
            /\ Len(dash.union.rows)
                   = Len(Flatten([i \in DOMAIN sel |-> sel[i].df.rows]))

\* one sheet of two is selected, both have rows, and the union is shown
C11_Witness ==
    /\ aphase = "all"
    /\ dash.mode = "all"
    /\ Len(widgets.axes.selected_sheets) = 1
    /\ Len(dfs) = 2
    /\ \A i \in DOMAIN dfs : Len(dfs[i].df.rows) > 0
    /\ Len(dash.union.rows) > 0

(***************************************************************************)
(* Combined export of several groups                                       *)
(***************************************************************************)
\* the number of sheets whose documents the export was asked to build
asked_documents ==
    IF widgets.download.download_option = "combined" THEN Len(dash.shown)
    ELSE Len(widgets.download.sheet_to_download)

\* C12: when several groups are exported combined, a failure while producing
\* one group's document does not abort the export: the loop goes on to every
\* group asked for, and the combined document is still offered for download.
C12_FailureDoesNotAbortExport ==
    (aphase = "all" /\ dash.mode = "filtered" /\ asked_documents >= 2) =>
        /\ Len(dash.exports) = asked_documents
        /\ dash.delivered

(***************************************************************************)
(* Failures of the video app's external calls                              *)
(***************************************************************************)
\* get_transcript returned one of its failure messages: the transcript was
\* written and no PDF button followed (lines 162-165)
transcript_failed == "write:transcript" \in Range(shown) /\ "button:pdf" \notin Range(shown)

\* C13: when an external call of a request fails (get_video_streams,
\* get_transcript, download_video), the request stops there: the failed call is
\* the last external call of the run.
C13_FailureEndsRequest ==
    vphase = "done" =>
        /\ "error:streams" \in Range(shown) => calls = <<"get_video_streams">>
        /\ transcript_failed => calls = <<"get_video_streams", "get_transcript">>

(***************************************************************************)
(* Cards against the document export                                       *)
(***************************************************************************)
\* the labels, and the values, of a list of (label, value) pairs
labels_of(lines) == [k \in DOMAIN lines |-> lines[k][1]]
values_of(lines) == [k \in DOMAIN lines |-> lines[k][2]]

\* C14: the cards on screen and the document export of a non-empty filtered
\* table never diverge: the labels on the first row's card are exactly the
\* header of the document, and the values on every row's card are exactly the
\* cells of that row in the document.
C14_CardsAgreeWithExport ==
    (aphase = "sheet" /\ pdf.status = "pdf") =>
        /\ labels_of(cards[1]) = pdf.table_data[1]
        /\ \A i \in DOMAIN cards : values_of(cards[i]) = pdf.table_data[i + 1]

(***************************************************************************)
(* The name search of the listed companies view                            *)
(***************************************************************************)
\* one of the name columns present in the table holds the text, whatever the case
some_name_col_contains(df, cells, text) ==
    \E c \in Range(lc_name_cols) :
        HasCol(df, c) /\ Contains(Lower(AsStr(cells[c])), Lower(text))

\* C15: the name search over several columns keeps a row when at least one of
\* the listed columns present in the table contains the search text, whatever
\* the case; a blank search keeps every row; and the rows kept are those that
\* pass the name search and every other column selection that is set.
C15_NameSearchOrThenAnd ==
    (aphase = "sheet" /\ Branch(selected_sheet) = "listed") =>
        Content(filtered_df)
            = SelectSeq(Content(dfs[1].df),
                        LAMBDA cells :
                            /\ \/ Strip(widgets.name_search) = <<>>
                               \/ some_name_col_contains(dfs[1].df, cells, widgets.name_search)
                            /\ \A c \in DOMAIN widgets.filters :
                                   (HasCol(dfs[1].df, c) /\ Truthy(widgets.filters[c]))
                                       => AsStr(cells[c]) \in widgets.filters[c].vals)

(***************************************************************************)
(* Card entries built from several source columns                          *)
(***************************************************************************)
Entry(label, cols, sep) == [label |-> label, cols |-> cols, sep |-> sep]

\* the entries of each shape that name more than one source column
several_source_entries(cf) ==
    CASE cf = "listed_companies_card" ->
             {Entry(lbl_CEO, <<col_CEOName, col_Designation>>, CommaSpace),
              Entry(lbl_CorpCode, <<col_CorporateName, col_BloombergCode>>, CommaSpace),
              Entry(lbl_SectorSub, <<col_Sector, col_SubSector>>, CommaSpace),
              Entry(lbl_AnalystHO, <<col_AnalystTeam, col_HeadOffice>>, CommaSpace),
              Entry(lbl_CFO, <<col_CFOConnects, col_Designation1>>, CommaSpace)}
      [] cf = "expert_confirmed_card" ->
             {Entry(lbl_SectorSegment, <<col_Sector, col_Segments>>, Space),
              Entry(lbl_CompanyDesc, <<col_Company, col_Description>>, CommaSpace)}
      [] cf = "expert_potential_card" ->
             {Entry(lbl_SectorSegment, <<col_Sector, col_Segment>>, Space),
              Entry(lbl_CompanyDesc, <<col_Company, col_Description>>, CommaSpace)}
      [] cf = "channel_checks_card" ->
             {Entry(lbl_SectorDashSub, <<col_Sector, col_SubSector>>, SpaceDashSpace),
              Entry(lbl_StateCity, <<col_State, col_Location>>, Space)}
      [] cf = "ir_data_card" ->
             {Entry(lbl_SectorCommaSub, <<col_Sector, col_SubSector>>, CommaSpace)}
      [] cf = "ministry_contacts_card" ->
             {Entry(col_Email, <<col_Email, col_PhoneNumber>>, CommaSpace)}
      [] OTHER -> {Entry(lbl_EmailPhone, <<col_Email, col_PhoneNumber>>, CommaSpace)}

\* the row's non-empty source values, in the order of the entry's columns
source_values(row, cols) ==
    SelectSeq([k \in DOMAIN cols |->
                  IF cols[k] \in DOMAIN row /\ ~row[cols[k]].isnull
                  THEN Strip(row[cols[k]].str) ELSE <<>>],
              LAMBDA v : v # <<>>)

\* C16: every card entry built from several source columns shows the row's
\* non-empty source values joined by the entry's separator, empty and missing
\* columns skipped, and the line is left out when every source value is empty;
\* the entry 'Analyst & Head Office' of the listed companies shape included.
C16_JoinedEntries ==
    aphase = "sheet" =>
        \A i \in DOMAIN cards :
            \A e \in several_source_entries(card_func) :
                LET vs == source_values(filtered_df.rows[i].cells, e.cols)
                    shown_for == {k \in DOMAIN cards[i] : cards[i][k][1] = e.label}
                IN  IF vs = <<>> THEN shown_for = {}
                    ELSE /\ shown_for # {}
                         /\ \A k \in shown_for : cards[i][k][2] = Join(vs, e.sep)

(***************************************************************************)
(* The header of the document export                                       *)
(***************************************************************************)
\* the projection of the i-th row of the filtered table: card_func(row, as_lines=True)
projected(i) == Lines(card_func, filtered_df.rows[i].cells, dfs[1].df.columns)

\* the table of lines 139-143 was built for a non-empty filtered table
table_built == /\ aphase = "sheet"
               /\ Len(filtered_df.rows) > 0
               /\ pdf.status \in {"pdf", "ZeroDivisionError"}

\* C17: in the document export of a non-empty table the header is the list of
\* the labels projected from the first row only; every data row has as many
\* cells as the header; the cell under a label is the row's value for that
\* label, and empty when the row's projection lacks the label; so a field of a
\* later row whose label is not in the header appears nowhere in the export.
C17_HeaderFromFirstRow ==
    table_built =>
        /\ pdf.table_data[1] = labels_of(projected(1))
        /\ \A i \in DOMAIN filtered_df.rows :
               LET p == projected(i)
                   header == pdf.table_data[1]
                   cells == pdf.table_data[i + 1]
               IN  /\ Len(cells) = Len(header)
                   /\ \A k \in DOMAIN header :
                          LET at == {j \in DOMAIN p : p[j][1] = header[k]}
                          IN  IF at = {} THEN cells[k] = <<>>
                              ELSE \E j \in at : cells[k] = p[j][2]

\* a document was built in which a later row lacks a label of the header and
\* has a field whose label is not in the header
C17_Witness ==
    /\ table_built
    /\ pdf.status = "pdf"
    /\ \E i \in DOMAIN filtered_df.rows :
           LET p == projected(i)
           IN  /\ i > 1
               /\ \E k \in DOMAIN pdf.table_data[1] :
                      pdf.table_data[1][k] \notin Range(labels_of(p))
               /\ \E j \in DOMAIN p :
                      /\ p[j][1] \notin Range(pdf.table_data[1])
                      /\ p[j][2] \notin Range(pdf.table_data[i + 1])

untouched_sheets(m) == {i \in DOMAIN m : m[i].nrows > 0 /\ ~m[i].checked}

\* C19: with at least one axis active, a selected sheet to which none of the
\* active axes applies is left out of the dashboard's list, although no check
\* excluded any of its rows.
C19_UntouchedGroupOmitted ==
    (aphase = "all" /\ dash.mode = "filtered") =>
        \A i \in untouched_sheets(Matching) :
            /\ Len(Matching[i].rows) = Matching[i].nrows
            /\ \A k \in DOMAIN dash.shown : dash.shown[k].sheet # Matching[i].sheet

\* a sheet with rows that no active axis applies to was selected, next to a
\* sheet that is listed
C19_Witness ==
    /\ aphase = "all"
    /\ dash.mode = "filtered"
    /\ untouched_sheets(Matching) # {}
    /\ dash.shown # <<>>

(***************************************************************************)
(* The Location selection of the expert and channel views                  *)
(***************************************************************************)
\* C20: in the expert confirmed view, as in the expert potential and channel
\* checks views, a non-empty Location selection keeps only rows whose Location
\* is one of the chosen values.
C20_LocationSelectionRestricts ==
    (/\ aphase = "sheet"
     /\ Branch(selected_sheet) \in {"confirmed", "potential", "channel"}
     /\ widgets.extra[key_city] # {}) =>
        \A i \in DOMAIN filtered_df.rows :
            AsStr(filtered_df.rows[i].cells[col_Location]) \in widgets.extra[key_city]

(***************************************************************************)
(* The column width computation of the document export                     *)
(***************************************************************************)
\* C21: the document export of a non-empty filtered table never fails on the
\* column width computation of line 146: for every shape the header has at
\* least one field, also for a generic sheet whose first row has no non-empty
\* value in its first eight columns and no email or phone.
C21_HeaderNeverEmpty ==
    (aphase = "sheet" /\ Len(filtered_df.rows) > 0) =>
        /\ Len(pdf.card_fields) >= 1
        /\ pdf.status # "ZeroDivisionError"

(***************************************************************************)
(* Specifications                                                          *)
(***************************************************************************)
InitVideo == VideoIdle /\ FilterIdle /\ AppIdle /\ dfs = <<>>

Request == \E url \in Urls : RunScript(url)

NextVideo == Request \/ Rerun

SpecVideo == InitVideo /\ [][NextVideo]_vars

InitFilter ==
    /\ VideoIdle
    /\ AppIdle
    /\ dfs = <<>>
    /\ fphase = "start"
    /\ fdf \in FTables
    /\ ffilters = <<>>
    /\ fres = <<>>

NextFilter == ApplyFilter \/ Reapply \/ Refilter

SpecFilter == InitFilter /\ [][NextFilter]_vars

Init ==
    /\ VideoIdle
    /\ FilterIdle
    /\ AppIdle
    /\ dfs \in Workbooks

Next == ViewSheet \/ NextInteraction

\* the workbooks of one sheet, viewed sheet by sheet
Spec == Init /\ [][Next]_vars

InitDash ==
    /\ VideoIdle
    /\ FilterIdle
    /\ AppIdle
    /\ dfs \in DashWorkbooks

NextDash == ViewAll \/ ViewSheet \/ NextInteraction

\* the workbooks of two sheets, viewed through the dashboard or sheet by sheet
SpecDash == InitDash /\ [][NextDash]_vars

====
